---- MODULE Spec2Model ----
(***************************************************************************)
(* Model of the story viewer: the scraper fetch_stories                    *)
(* (src/fetch_stories.py) and the Flask handlers index, fetch, proxy and   *)
(* download over the shared dictionary MEDIA_CACHE (src/app.py).           *)
(*                                                                         *)
(* Strings the code inspects are sequences of lexical pieces: a username   *)
(* is a sequence of characters, a media src is a sequence such as          *)
(* <<"/", "a">> (a relative path) or <<Origin, "/", "a">>.                 *)
(***************************************************************************)
EXTENDS Integers, Sequences, FiniteSets, TLC

VARIABLES MEDIA_CACHE, pc, req, resp, minted, putlog, nreq, page, result, fpc

vars == <<MEDIA_CACHE, pc, req, resp, minted, putlog, nreq, page, result, fpc>>

serverVars == <<MEDIA_CACHE, pc, req, resp, minted, putlog, nreq>>

fetcherVars == <<page, result, fpc>>

(***************************************************************************)
(* Bounds of the model.                                                    *)
(***************************************************************************)
MaxCols == 2

MaxUserLen == 2

NumTokens == 3

MaxRequests == 3

(***************************************************************************)
(* Program constants.                                                      *)
(***************************************************************************)
UNKNOWN_AGE == 999999

MINUTES_PER_HOUR == 60

MINUTES_PER_DAY == 1440

Origin == "https://www.popygram.com"

Cdn == "https://cdn.example"

(***************************************************************************)
(* The upstream page, as the parser sees it.                               *)
(***************************************************************************)
NoTag == [tag |-> FALSE]

Tag(src) == [tag |-> TRUE, src |-> src]

NoClock == [clock |-> FALSE]

Label(num, units) == [clock |-> TRUE, num |-> num, units |-> units]

\* <i class="fa-clock"> followed by a <span>: the first run of digits of the
\* span's text (<<>> when it has none) and the unit words that occur in it.
Labels ==
    { NoClock,
      Label(<<5>>, {"minute"}),
      Label(<<1>>, {"hour"}),
      Label(<<700>>, {"day"}),
      Label(<<>>, {}),
      Label(<<>>, {"minute"}) }

\* The <video> and <img> tags of one column.
Medias ==
    { [video |-> NoTag, img |-> NoTag],
      [video |-> NoTag, img |-> Tag(<<>>)],
      [video |-> NoTag, img |-> Tag(<<"/", "a">>)],
      [video |-> NoTag, img |-> Tag(<<Origin, "/", "a">>)],
      [video |-> Tag(<<Cdn, "/", "v">>), img |-> Tag(<<"/", "a">>)],
      [video |-> Tag(<<>>), img |-> Tag(<<"/", "a">>)] }

Cols == { [video |-> m.video, img |-> m.img, label |-> l] : m \in Medias, l \in Labels }

SeqsUpTo(S, n) == UNION { [1..k -> S] : k \in 0..n }

\* Media tags of the document that lie outside the row container.
StoryTag == [src |-> <<Cdn, "/", "s">>, profile_pic |-> FALSE]

ProfileTag == [src |-> <<Cdn, "/", "p">>, profile_pic |-> TRUE]

Outsides == { {}, {StoryTag, ProfileTag} }

NoRow == [found |-> FALSE]

Row(cols) == [found |-> TRUE, cols |-> cols]

Docs ==
    { [no_stories |-> m, row_div |-> r, outside |-> o] :
        m \in BOOLEAN,
        r \in {NoRow} \cup { Row(cs) : cs \in SeqsUpTo(Cols, MaxCols) },
        o \in Outsides }

EmptyDoc == [no_stories |-> FALSE, row_div |-> NoRow, outside |-> {}]

\* What requests.post + raise_for_status produce: a 2xx page, or one of the
\* RequestException subclasses.
TransportFailures == {"Timeout", "ConnectionError", "HTTPError"}

OkPage(doc) == [outcome |-> "ok", doc |-> doc]

\* A timeout or a connection error leaves no response; a non-2xx response has
\* a body, which raise_for_status keeps from being parsed.
FailedPage(e) == [outcome |-> e, doc |-> EmptyDoc]

HttpErrorPage(doc) == [outcome |-> "HTTPError", doc |-> doc]

OneStoryDoc ==
    [no_stories |-> FALSE,
     row_div |-> Row(<<[video |-> NoTag, img |-> Tag(<<"/", "a">>), label |-> NoClock]>>),
     outside |-> {}]

TwoStoriesDoc ==
    [no_stories |-> FALSE,
     row_div |-> Row(<<[video |-> Tag(<<Cdn, "/", "v">>), img |-> Tag(<<"/", "a">>),
                        label |-> Label(<<1>>, {"hour"})],
                       [video |-> NoTag, img |-> Tag(<<"/", "a">>),
                        label |-> Label(<<5>>, {"minute"})]>>),
     outside |-> {}]

FailedPages ==
    { FailedPage(e) : e \in TransportFailures } \cup {HttpErrorPage(OneStoryDoc)}

Pages == { OkPage(d) : d \in Docs } \cup FailedPages

(***************************************************************************)
(* fetch_stories                                                           *)
(***************************************************************************)
\* parse_time_ago: the first unit word found decides the factor; a missing
\* number raises inside the try and gives the fallback.
parse_time_ago(label) ==
    IF "minute" \in label.units
    THEN IF label.num = <<>> THEN UNKNOWN_AGE ELSE label.num[1]
    ELSE IF "hour" \in label.units
    THEN IF label.num = <<>> THEN UNKNOWN_AGE ELSE label.num[1] * MINUTES_PER_HOUR
    ELSE IF "day" \in label.units
    THEN IF label.num = <<>> THEN UNKNOWN_AGE ELSE label.num[1] * MINUTES_PER_DAY
    ELSE UNKNOWN_AGE

\* video wins over img; a column without either tag has no url.
ColMedia(col) ==
    IF col.video.tag THEN [type |-> "video", url |-> col.video.src]
    ELSE IF col.img.tag THEN [type |-> "image", url |-> col.img.src]
    ELSE [type |-> "none", url |-> <<>>]

CleanUrl(url) ==
    IF url # <<>> /\ url[1] = "/" THEN <<Origin>> \o url ELSE url

ColAge(col) ==
    IF col.label.clock THEN parse_time_ago(col.label) ELSE UNKNOWN_AGE

\* story_data: time_str is set only when the clock icon and its span are found.
StoryOf(col) ==
    IF col.label.clock
    THEN [type |-> ColMedia(col).type,
          url |-> CleanUrl(ColMedia(col).url),
          time_str |-> col.label,
          age_minutes |-> ColAge(col)]
    ELSE [type |-> ColMedia(col).type,
          url |-> CleanUrl(ColMedia(col).url),
          age_minutes |-> ColAge(col)]

RECURSIVE ExtractStories(_)
ExtractStories(cols) ==
    IF cols = <<>> THEN <<>>
    ELSE IF ColMedia(Head(cols)).url # <<>>
         THEN <<StoryOf(Head(cols))>> \o ExtractStories(Tail(cols))
         ELSE ExtractStories(Tail(cols))

ContainerStories(doc) ==
    IF doc.row_div.found THEN ExtractStories(doc.row_div.cols) ELSE <<>>

\* "if not stories: pass": the whole-document scan is not there.
FallbackScan(doc, stories) == stories

\* list.sort(key=age_minutes): stable, ascending.
RECURSIVE InsertByAge(_, _)
InsertByAge(story, sorted) ==
    IF sorted = <<>> THEN <<story>>
    ELSE IF Head(sorted).age_minutes <= story.age_minutes
         THEN <<Head(sorted)>> \o InsertByAge(story, Tail(sorted))
         ELSE <<story>> \o sorted

RECURSIVE SortByAge(_)
SortByAge(stories) ==
    IF stories = <<>> THEN <<>>
    ELSE InsertByAge(stories[Len(stories)],
                     SortByAge(SubSeq(stories, 1, Len(stories) - 1)))

RECURSIVE Unique(_, _)
Unique(stories, seen) ==
    IF stories = <<>> THEN <<>>
    ELSE IF Head(stories).url \in seen
         THEN Unique(Tail(stories), seen)
         ELSE <<Head(stories)>> \o Unique(Tail(stories), seen \cup {Head(stories).url})

\* The de-duplication without the sort before it.
unique_stories_unsorted(stories) == Unique(stories, {})

unique_stories(stories) == Unique(SortByAge(stories), {})

\* fetch_stories without raise_for_status(): a non-2xx body is parsed.
fetch_stories_no_raise(p) ==
    IF p.outcome \in {"Timeout", "ConnectionError"} THEN <<>>
    ELSE IF p.doc.no_stories THEN <<>>
    ELSE unique_stories(FallbackScan(p.doc, ContainerStories(p.doc)))

fetch_stories(p) ==
    IF p.outcome # "ok" THEN <<>>
    ELSE IF p.doc.no_stories THEN <<>>
    ELSE unique_stories(FallbackScan(p.doc, ContainerStories(p.doc)))

(***************************************************************************)
(* The fetcher on its own: one call of fetch_stories on an upstream page.  *)
(***************************************************************************)
NoPage == FailedPage("ConnectionError")

FetcherIdle == /\ page = NoPage
               /\ result = <<>>
               /\ fpc = "call"

FetchStoriesCall ==
    /\ fpc = "call"
    /\ result' = fetch_stories(page)
    /\ fpc' = "returned"
    /\ UNCHANGED <<page, serverVars>>

(***************************************************************************)
(* The web server.                                                         *)
(***************************************************************************)
Workers == {"w1", "w2"}

Tokens == { <<"uuid4", i>> : i \in 1..NumTokens }

Chars == {" ", "@", "a"}

Usernames == SeqsUpTo(Chars, MaxUserLen)

\* request.get_json(): no JSON body, a JSON array, or a JSON object whose
\* "username" is missing, null or a string.
NoUsername == [given |-> FALSE]

NullUsername == [given |-> TRUE, null |-> TRUE]

StrUsername(s) == [given |-> TRUE, null |-> FALSE, str |-> s]

Bodies ==
    { [json |-> "absent"], [json |-> "array"] }
    \cup { [json |-> "object", username |-> u] :
             u \in {NoUsername, NullUsername} \cup { StrUsername(s) : s \in Usernames } }

\* The bodies of the requests that run concurrently: one of each kind.
SampleBodies ==
    { [json |-> "absent"], [json |-> "array"],
      [json |-> "object", username |-> NoUsername],
      [json |-> "object", username |-> NullUsername],
      [json |-> "object", username |-> StrUsername(<<" ", "@">>)],
      [json |-> "object", username |-> StrUsername(<<"@", "a">>)] }

\* request.args.get('id'): no parameter, or its value (<<>> is id=).
NoId == [given |-> FALSE]

Id(v) == [given |-> TRUE, value |-> v]

IdParams == {NoId, Id(<<>>)} \cup { Id(t) : t \in Tokens }

\* The value the handler tests and looks up: None and '' are both falsy.
IdValue(p) == IF p.given THEN p.value ELSE <<>>

\* The pages the third-party site answers a fetch with.
ServerDocs == {OneStoryDoc, TwoStoriesDoc}

ServerPages == { OkPage(d) : d \in ServerDocs } \cup FailedPages

\* str.strip()
RECURSIVE LStrip(_, _)
LStrip(s, c) == IF s # <<>> /\ Head(s) = c THEN LStrip(Tail(s), c) ELSE s

RECURSIVE RStrip(_, _)
RStrip(s, c) ==
    IF s # <<>> /\ s[Len(s)] = c THEN RStrip(SubSeq(s, 1, Len(s) - 1), c) ELSE s

Strip(s) == RStrip(LStrip(s, " "), " ")

\* The normalisation without lstrip('@').
NormalizeUsernameNoAt(s) == Strip(s)

\* data.get('username', '').strip().lstrip('@')
NormalizeUsername(s) == LStrip(Strip(s), "@")

\* jsonify(...) with a status
Json(status, body) == [status |-> status, json |-> body]

\* What Flask answers when the view raises, or when get_json() rejects the
\* request: an HTML error page.
ErrorPage(status) == [status |-> status, html |-> "error page"]

NoResp == [status |-> 0]

\* An id taken from the size of the cache instead of uuid4.
Uuid4FromCacheSize == { t \in Tokens : t[2] = Cardinality(DOMAIN MEDIA_CACHE) + 1 }

\* uuid.uuid4(): a value no earlier call returned. The values are
\* interchangeable, so the k-th call of the process returns the k-th token.
Uuid4Values == { t \in Tokens : t[2] = Cardinality(minted) + 1 }

\* MEDIA_CACHE = {media_id: url}: the dictionary rebuilt on every put.
PutReplacing(cache, media_id, url) == [t \in {media_id} |-> url]

\* MEDIA_CACHE[media_id] = url
Put(cache, media_id, url) ==
    [t \in DOMAIN cache \cup {media_id} |-> IF t = media_id THEN url ELSE cache[t]]

\* MEDIA_CACHE.get(media_id, media_id): the id itself when it is unknown.
CacheGetOrId(cache, media_id) ==
    IF media_id \in DOMAIN cache THEN cache[media_id] ELSE media_id

\* MEDIA_CACHE.get(media_id): the url, or None (<<>>, falsy like '').
CacheGet(cache, media_id) ==
    IF media_id \in DOMAIN cache THEN cache[media_id] ELSE <<>>

\* The descriptor as it would be with the story passed through.
SafeStoryWithUrl(media_id, story) ==
    [id |-> media_id, type |-> story.type, url |-> story.url]

\* {'id': media_id, 'type': story['type']}
SafeStory(media_id, story) == [id |-> media_id, type |-> story.type]

ServerIdle ==
    /\ MEDIA_CACHE = <<>>
    /\ pc = [w \in Workers |-> "idle"]
    /\ req = [w \in Workers |-> [endpoint |-> "none"]]
    /\ resp = [w \in Workers |-> NoResp]
    /\ minted = {}
    /\ putlog = {}
    /\ nreq = 0

Begin(w) ==
    /\ pc[w] = "idle"
    /\ nreq < MaxRequests
    /\ nreq' = nreq + 1

Answer(w, r) ==
    /\ resp' = [resp EXCEPT ![w] = r]
    /\ pc' = [pc EXCEPT ![w] = "idle"]

\* The request's record: its number and the cache as the handler found it.
Request(endpoint) ==
    [endpoint |-> endpoint, rid |-> nreq + 1, cache_before |-> MEDIA_CACHE]

\* GET /
index(w) ==
    /\ Begin(w)
    /\ req' = [req EXCEPT ![w] = Request("index")]
    /\ Answer(w, [status |-> 200, html |-> "index.html"])
    /\ UNCHANGED <<MEDIA_CACHE, minted, putlog, fetcherVars>>

FetchRequest(body, called) ==
    [endpoint |-> "fetch", rid |-> nreq + 1, cache_before |-> MEDIA_CACHE,
     body |-> body, fetcher_called |-> called, puts |-> {}]

FetchLoop(body, username, p) ==
    [endpoint |-> "fetch", rid |-> nreq + 1, cache_before |-> MEDIA_CACHE,
     body |-> body, fetcher_called |-> TRUE, puts |-> {},
     username |-> username, upstream |-> p.outcome,
     raw_stories |-> fetch_stories(p), safe_stories |-> <<>>, media_id |-> <<>>]

\* POST /api/fetch, up to the return of fetch_stories.
fetch(w, body) ==
    /\ Begin(w)
    /\ \/ /\ body.json = "absent"
          /\ \E status \in {400, 415, 500} : Answer(w, ErrorPage(status))
          /\ req' = [req EXCEPT ![w] = FetchRequest(body, FALSE)]
       \/ /\ \/ body.json = "array"
             \/ body.json = "object" /\ body.username = NullUsername
          /\ Answer(w, ErrorPage(500))
          /\ req' = [req EXCEPT ![w] = FetchRequest(body, FALSE)]
       \/ /\ body.json = "object"
          /\ body.username # NullUsername
          /\ LET username == IF body.username.given
                             THEN NormalizeUsername(body.username.str)
                             ELSE <<>>
             IN
             \/ /\ username = <<>>
                /\ Answer(w, Json(400, [error |-> "Username required"]))
                /\ req' = [req EXCEPT ![w] = FetchRequest(body, FALSE)]
             \/ /\ username # <<>>
                /\ \E p \in ServerPages :
                     req' = [req EXCEPT ![w] = FetchLoop(body, username, p)]
                /\ pc' = [pc EXCEPT ![w] = "mint"]
                /\ UNCHANGED resp
    /\ UNCHANGED <<MEDIA_CACHE, minted, putlog, fetcherVars>>

\* media_id = str(uuid.uuid4())
fetch_mint(w) ==
    /\ pc[w] = "mint"
    /\ Len(req[w].safe_stories) < Len(req[w].raw_stories)
    /\ \E id \in Uuid4Values :
         /\ req' = [req EXCEPT ![w].media_id = id]
         /\ minted' = minted \cup {id}
    /\ pc' = [pc EXCEPT ![w] = "store"]
    /\ UNCHANGED <<MEDIA_CACHE, resp, putlog, nreq, fetcherVars>>

\* MEDIA_CACHE[media_id] = story['url']; safe_stories.append(...)
fetch_store(w) ==
    /\ pc[w] = "store"
    /\ LET story == req[w].raw_stories[Len(req[w].safe_stories) + 1]
           media_id == req[w].media_id
       IN /\ MEDIA_CACHE' = Put(MEDIA_CACHE, media_id, story.url)
          /\ req' = [req EXCEPT ![w].safe_stories = Append(@, SafeStory(media_id, story)),
                                ![w].puts = @ \cup {media_id}]
          /\ putlog' = putlog \cup {[id |-> media_id, url |-> story.url,
                                     rid |-> req[w].rid]}
    /\ pc' = [pc EXCEPT ![w] = "mint"]
    /\ UNCHANGED <<resp, minted, nreq, fetcherVars>>

\* return jsonify({'username': ..., 'stories': ..., 'count': ...})
fetch_respond(w) ==
    /\ pc[w] = "mint"
    /\ Len(req[w].safe_stories) = Len(req[w].raw_stories)
    /\ Answer(w, Json(200, [username |-> req[w].username,
                            stories |-> req[w].safe_stories,
                            count |-> Len(req[w].safe_stories)]))
    /\ UNCHANGED <<MEDIA_CACHE, req, minted, putlog, nreq, fetcherVars>>

\* proxy and download up to the outbound requests.get
MediaRequest(w, endpoint, media_id) ==
    /\ Begin(w)
    /\ LET start == [endpoint |-> endpoint, rid |-> nreq + 1,
                     cache_before |-> MEDIA_CACHE, media_id |-> media_id,
                     looked_up |-> FALSE, outbound |-> FALSE, url |-> <<>>]
           url == CacheGet(MEDIA_CACHE, IdValue(media_id))
       IN
       \/ /\ IdValue(media_id) = <<>>
          /\ Answer(w, Json(400, [error |-> "Media ID required"]))
          /\ req' = [req EXCEPT ![w] = start]
       \/ /\ IdValue(media_id) # <<>>
          /\ url = <<>>
          /\ Answer(w, Json(404, [error |-> "Invalid or expired media ID"]))
          /\ req' = [req EXCEPT ![w] = [start EXCEPT !.looked_up = TRUE]]
       \/ /\ IdValue(media_id) # <<>>
          /\ url # <<>>
          /\ req' = [req EXCEPT ![w] = [start EXCEPT !.looked_up = TRUE, !.url = url]]
          /\ pc' = [pc EXCEPT ![w] = "get"]
          /\ UNCHANGED resp
    /\ UNCHANGED <<MEDIA_CACHE, minted, putlog, fetcherVars>>

\* GET /api/proxy
proxy(w, media_id) == MediaRequest(w, "proxy", media_id)

\* GET /api/download
download(w, media_id) == MediaRequest(w, "download", media_id)

\* requests.get(url, stream=True); raise_for_status(); Response(...) or the
\* except branch.
media_stream(w) ==
    /\ pc[w] = "get"
    /\ req' = [req EXCEPT ![w].outbound = TRUE]
    /\ \/ Answer(w, [status |-> 200, stream |-> req[w].url,
                     disposition |-> IF req[w].endpoint = "proxy"
                                     THEN "inline" ELSE "attachment"])
       \/ Answer(w, Json(500, [error |-> "str(e)"]))
    /\ UNCHANGED <<MEDIA_CACHE, minted, putlog, nreq, fetcherVars>>

Init == ServerIdle /\ FetcherIdle

\* Requests handled concurrently, one thread per request.
Next ==
    \/ \E w \in Workers : index(w)
    \/ \E w \in Workers, body \in SampleBodies : fetch(w, body)
    \/ \E w \in Workers : fetch_mint(w)
    \/ \E w \in Workers : fetch_store(w)
    \/ \E w \in Workers : fetch_respond(w)
    \/ \E w \in Workers, media_id \in IdParams : proxy(w, media_id)
    \/ \E w \in Workers, media_id \in IdParams : download(w, media_id)
    \/ \E w \in Workers : media_stream(w)

Spec == Init /\ [][Next]_vars

\* One request at a time, with every request body.
NextOneWorker ==
    \/ index("w1")
    \/ \E body \in Bodies : fetch("w1", body)
    \/ fetch_mint("w1")
    \/ fetch_store("w1")
    \/ fetch_respond("w1")
    \/ \E media_id \in IdParams : proxy("w1", media_id)
    \/ \E media_id \in IdParams : download("w1", media_id)
    \/ media_stream("w1")

SpecOneWorker == Init /\ [][NextOneWorker]_vars

InitFetcher == ServerIdle /\ page \in Pages /\ result = <<>> /\ fpc = "call"

NextFetcher == FetchStoriesCall

SpecFetcher == InitFetcher /\ [][NextFetcher]_vars

(***************************************************************************)
(* Properties.                                                             *)
(***************************************************************************)
Responded(w) == pc[w] = "idle" /\ resp[w] # NoResp

FetchAnswered(w) ==
    /\ Responded(w)
    /\ req[w].endpoint = "fetch"
    /\ resp[w].status = 200
    /\ "json" \in DOMAIN resp[w]

MediaEndpoints == {"proxy", "download"}

\* C1: every successful POST /api/fetch returns descriptors made of id and
\* type only, one per fetched story and in the same order, whose id is a key
\* of MEDIA_CACHE mapped to that story's url; count is their number and the
\* response has no other field than username, stories and count.
C1_DescriptorsResolve ==
    \A w \in Workers :
      FetchAnswered(w) =>
        LET body == resp[w].json
            raw == req[w].raw_stories
        IN /\ DOMAIN body = {"username", "stories", "count"}
           /\ body.count = Len(body.stories)
           /\ Len(body.stories) = Len(raw)
           /\ \A i \in 1..Len(body.stories) :
                /\ DOMAIN body.stories[i] = {"id", "type"}
                /\ body.stories[i].id \in Tokens
                /\ body.stories[i].type = raw[i].type
                /\ body.stories[i].id \in DOMAIN MEDIA_CACHE
                /\ MEDIA_CACHE[body.stories[i].id] = raw[i].url

C1_Witness ==
    \E w \in Workers :
      /\ FetchAnswered(w)
      /\ resp[w].json.count = 2
      /\ resp[w].json.stories[1].type = "image"
      /\ resp[w].json.stories[2].type = "video"

\* A username made of whitespace, then '@'s, then whitespace: what is empty
\* after trimming and stripping the leading '@'.
BlankUsername(s) ==
    \E i \in 0..Len(s) : \E j \in i..Len(s) :
      \A k \in 1..Len(s) :
        s[k] = (IF k <= i \/ k > j THEN " " ELSE "@")

BlankFetch(w) ==
    /\ req[w].endpoint = "fetch"
    /\ req[w].body.json = "object"
    /\ req[w].body.username.given
    /\ ~req[w].body.username.null
    /\ BlankUsername(req[w].body.username.str)

\* C2: a POST /api/fetch whose username is blank is answered 400 with an
\* error body in one step, without a call of fetch_stories and with
\* MEDIA_CACHE as it was when the request arrived.
C2_BlankUsernameRejected ==
    BlankFetch("w1") =>
      /\ pc["w1"] = "idle"
      /\ resp["w1"].status = 400
      /\ "json" \in DOMAIN resp["w1"]
      /\ "error" \in DOMAIN resp["w1"].json
      /\ ~req["w1"].fetcher_called
      /\ req["w1"].puts = {}
      /\ MEDIA_CACHE = req["w1"].cache_before

C2_Witness ==
    /\ BlankFetch("w1")
    /\ req["w1"].body.username.str = <<" ", "@">>
    /\ MEDIA_CACHE # <<>>
    /\ resp["w1"].status = 400

\* C3: GET /api/proxy and GET /api/download with an id that is no key of
\* MEDIA_CACHE are answered 404 with an error body and make no outbound
\* request; without an id (none, or an empty one) they are answered 400
\* before any lookup.
C3_UnknownTokenNotFound ==
    \A w \in Workers :
      req[w].endpoint \in MediaEndpoints =>
        /\ (IdValue(req[w].media_id) # <<>>
            /\ IdValue(req[w].media_id) \notin DOMAIN req[w].cache_before)
           => /\ Responded(w)
              /\ resp[w].status = 404
              /\ "json" \in DOMAIN resp[w]
              /\ "error" \in DOMAIN resp[w].json
              /\ ~req[w].outbound
        /\ IdValue(req[w].media_id) = <<>>
           => /\ Responded(w)
              /\ resp[w].status = 400
              /\ "json" \in DOMAIN resp[w]
              /\ "error" \in DOMAIN resp[w].json
              /\ ~req[w].looked_up
              /\ ~req[w].outbound

C3_Witness ==
    /\ MEDIA_CACHE # <<>>
    /\ req["w1"].endpoint = "proxy"
    /\ req["w1"].media_id \in { Id(t) : t \in Tokens \ DOMAIN MEDIA_CACHE }
    /\ resp["w1"].status = 404
    /\ req["w2"].endpoint = "download"
    /\ req["w2"].media_id = NoId
    /\ resp["w2"].status = 400

FailedFetch(w) ==
    /\ req[w].endpoint = "fetch"
    /\ req[w].fetcher_called
    /\ req[w].upstream \in TransportFailures

\* C4: when the outbound request of fetch_stories times out, cannot connect
\* or gets a non-2xx status, fetch_stories returns the empty list and the
\* fetch request is answered 200 with count 0 and no stories, having put
\* nothing in MEDIA_CACHE.
C4_TransportFailureIsEmpty ==
    \A w \in Workers :
      FailedFetch(w) =>
        /\ req[w].raw_stories = <<>>
        /\ req[w].puts = {}
        /\ pc[w] # "store"
        /\ pc[w] = "idle" =>
             /\ resp[w].status = 200
             /\ "json" \in DOMAIN resp[w]
             /\ resp[w].json.count = 0
             /\ resp[w].json.stories = <<>>

C4_Witness ==
    /\ FailedFetch("w1")
    /\ req["w1"].upstream = "HTTPError"
    /\ pc["w1"] = "idle"
    /\ resp["w1"].status = 200
    /\ MEDIA_CACHE # <<>>

\* C5: MEDIA_CACHE only grows: every step keeps every key with its url, and
\* a step that changes it is the put of a fetch request, adding one key that
\* was not there.
C5_CacheAppendOnly ==
    [][ /\ \A t \in DOMAIN MEDIA_CACHE :
             t \in DOMAIN MEDIA_CACHE' /\ MEDIA_CACHE'[t] = MEDIA_CACHE[t]
        /\ MEDIA_CACHE' # MEDIA_CACHE =>
             \E w \in Workers :
               /\ pc[w] = "store"
               /\ req[w].endpoint = "fetch"
               /\ req[w].media_id \notin DOMAIN MEDIA_CACHE
               /\ DOMAIN MEDIA_CACHE' = DOMAIN MEDIA_CACHE \cup {req[w].media_id} ]_vars

C5_Witness ==
    /\ Cardinality(DOMAIN MEDIA_CACHE) = 3
    /\ \E w \in Workers :
         /\ Responded(w)
         /\ req[w].endpoint \in MediaEndpoints
         /\ req[w].outbound
         /\ req[w].cache_before = MEDIA_CACHE

\* C6: with requests interleaved, every put ever made is in MEDIA_CACHE with
\* its url, no token was put twice (by one request or by two), and the url a
\* proxy or download lookup found is the url that was put under that token.
C6_PutsAtomic ==
    /\ \A e \in putlog : e.id \in DOMAIN MEDIA_CACHE /\ MEDIA_CACHE[e.id] = e.url
    /\ \A e1 \in putlog : \A e2 \in putlog : e1.id = e2.id => e1 = e2
    /\ Cardinality(putlog) = Cardinality(DOMAIN MEDIA_CACHE)
    /\ \A w \in Workers :
         (req[w].endpoint \in MediaEndpoints /\ req[w].url # <<>>) =>
           \E e \in putlog : e.id = IdValue(req[w].media_id) /\ e.url = req[w].url

\* Two fetch requests in flight, each with a put made, and a lookup that
\* found the entry of one of them.
C6_Witness ==
    /\ \E e1 \in putlog : \E e2 \in putlog : e1.rid = 1 /\ e2.rid = 2
    /\ \E w \in Workers : req[w].endpoint = "fetch" /\ pc[w] = "store" /\ req[w].puts # {}
    /\ \E w \in Workers : req[w].endpoint \in MediaEndpoints /\ req[w].url # <<>>

Returned == fpc = "returned"

Parsed == Returned /\ page.outcome = "ok" /\ ~page.doc.no_stories

\* The items fetch_stories extracted from the page, before the sort.
Items == FallbackScan(page.doc, ContainerStories(page.doc))

Range(seq) == { seq[i] : i \in 1..Len(seq) }

\* C7: the result of fetch_stories has no two entries with one url, has an
\* entry for every url of the extracted items, and the entry kept for a url
\* has the lowest age_minutes among the items with that url.
C7_Deduplicated ==
    Parsed =>
      /\ \A i \in 1..Len(result) : \A j \in 1..Len(result) :
           result[i].url = result[j].url => i = j
      /\ { r.url : r \in Range(result) } = { it.url : it \in Range(Items) }
      /\ Range(result) \subseteq Range(Items)
      /\ \A r \in Range(result) : \A it \in Range(Items) :
           it.url = r.url => r.age_minutes <= it.age_minutes

\* The same url twice, the older item first.
C7_Witness ==
    /\ Parsed
    /\ Len(Items) = 2
    /\ Items[1].url = Items[2].url
    /\ Items[1].age_minutes > Items[2].age_minutes
    /\ Len(result) = 1

\* An item whose label gave an age: a unit word and a number.
KnownAge(story) ==
    /\ "time_str" \in DOMAIN story
    /\ story.time_str.num # <<>>
    /\ story.time_str.units \cap {"minute", "hour", "day"} # {}

\* C8: the result of fetch_stories is in ascending order of age_minutes and
\* every item of unknown age comes after every item of known age.
C8_SortedUnknownLast ==
    Parsed =>
      /\ \A i \in 1..Len(result) : \A j \in 1..Len(result) :
           i < j => result[i].age_minutes <= result[j].age_minutes
      /\ \A i \in 1..Len(result) : \A j \in 1..Len(result) :
           (~KnownAge(result[i]) /\ KnownAge(result[j])) => j < i

NoUsableUsername(body) ==
    \/ body.json \in {"absent", "array"}
    \/ body.json = "object" /\ body.username \in {NoUsername, NullUsername}

\* C9: every answer of fetch, proxy and download other than a 200 is a JSON
\* object with an error field and status 400, 404 or 500, and a fetch whose
\* body has no usable username is answered 400.
C9_StructuredErrors ==
    \A w \in Workers :
      (Responded(w) /\ req[w].endpoint \in MediaEndpoints \cup {"fetch"}) =>
        /\ resp[w].status # 200 =>
             /\ resp[w].status \in {400, 404, 500}
             /\ "json" \in DOMAIN resp[w]
             /\ "error" \in DOMAIN resp[w].json
        /\ (req[w].endpoint = "fetch" /\ NoUsableUsername(req[w].body)) =>
             resp[w].status = 400

\* C10: when the page has no "no stories" marker and the container gives no
\* item, a story media tag elsewhere in the document is in the result, and no
\* profile picture is.
C10_FallbackScan ==
    (Parsed /\ ContainerStories(page.doc) = <<>>) =>
      /\ \A t \in page.doc.outside :
           ~t.profile_pic => \E r \in Range(result) : r.url = t.src
      /\ \A t \in page.doc.outside :
           t.profile_pic => \A r \in Range(result) : r.url # t.src

====
